---------------------------- MODULE Spec2Model ----------------------------
(***************************************************************************)
(* Model of the polling composable useTrainingPolling                      *)
(* (src/src/composables/useTrainingPolling.ts): the Store (health, tasks,  *)
(* error), the three refresh handlers and the hydration run that follows a *)
(* list merge.  Every await of the source is a suspension point: the code  *)
(* between two awaits is one atomic action, as on the single event loop.   *)
(***************************************************************************)
EXTENDS Integers, Sequences, FiniteSets, TLC

VARIABLES
    health,     \* health.value: Null or a ServerHealth object
    tasks,      \* tasks.value: sequence of task objects
    error,      \* error.value: text, a sequence of characters
    calls,      \* refresh invocations made so far (bounded by MaxCalls)
    healthReqs, \* refreshHealth invocations awaiting getTrainingHealth()
    refreshes,  \* refreshTasks invocations, in call order
    progresses, \* refreshProgress invocations, in call order
    config,     \* config.value: the three intervals
    healthTimer,    \* the handle of the health timer, or Null
    tasksTimer,     \* the handle of the task-list timer, or Null
    progressTimer,  \* the handle of the progress timer, or Null
    intervals,  \* the repeating timers the window holds armed
    lastId      \* the last handle window.setInterval returned

\* What startPolling, stopPolling and setConfig read and write.
polling == <<config, healthTimer, tasksTimer, progressTimer, intervals, lastId>>

vars == <<health, tasks, error, calls, healthReqs, refreshes, progresses, polling>>

\* Bound: refreshHealth/refreshTasks/refreshProgress invocations per behaviour
\* that are direct calls or timer ticks.
MaxCalls == 3

\* Bound: tasks in a list response of the hydration model.
MaxTasks == 7

\* Bound: runs of startPolling (its own calls and those of setConfig) per
\* behaviour.
MaxStarts == 2

\* const CONCURRENCY = 3 in hydrateMissingDetails.
CONCURRENCY == 3

(***************************************************************************)
(* JavaScript values.  A key that is absent from an object and a key whose *)
(* value is undefined read the same everywhere in the source, so both are  *)
(* Undefined here.                                                         *)
(***************************************************************************)
Undefined == [k |-> "undefined"]
Null == [k |-> "null"]
Str(s) == [k |-> "string", s |-> s]
Num(n) == [k |-> "number", n |-> n]

\* ToBoolean, as applied by the ! operator.
Truthy(v) ==
    CASE v.k = "undefined" -> FALSE
      [] v.k = "null" -> FALSE
      [] v.k = "number" -> v.n # 0
      [] v.k = "string" -> v.s # ""
      [] OTHER -> TRUE

\* The test of the ?? and ?. operators.
Nullish(v) == v.k \in {"undefined", "null"}

\* The fields of TrainingTask that the handlers read or write, and created_at,
\* which none of them names.
Fields ==
    {"task_id", "status", "created_at", "started_at", "completed_at",
     "config", "progress", "results"}

\* The object literal {} of `ot || {}`.
EmptyObject == [f \in Fields |-> Undefined]

\* { ...a, ...b }: b's own keys win, a's other keys stay.
Spread(a, b) == [f \in Fields |-> IF b[f] # Undefined THEN b[f] ELSE a[f]]

\* Array.prototype.findIndex by task_id: the first match, 0 for -1.
RECURSIVE FindFrom(_, _, _)
FindFrom(ts, id, i) ==
    IF i > Len(ts) THEN 0
    ELSE IF ts[i].task_id = id THEN i
    ELSE FindFrom(ts, id, i + 1)

FindIndex(ts, id) == FindFrom(ts, id, 1)

\* t.config?.num_classes
NumClasses(c) == IF Nullish(c) THEN Undefined ELSE c.num_classes


(***************************************************************************)
(* What the remote service sends.  The list endpoint sends summaries that  *)
(* may omit config, progress and results; the detail endpoint sends the    *)
(* full record of one task.  num_classes, where a config carries it, is at *)
(* least 1 (the training form's input has min="1").                        *)
(***************************************************************************)
Created == Str("2024-01-01T00:00:00Z")
Started == Str("2024-01-01T00:05:00Z")
Ended == Str("2024-01-01T01:00:00Z")

ConfigFull == [k |-> "object", num_classes |-> Num(3)]
\* A config object that does not carry num_classes.
ConfigPartial == [k |-> "object", num_classes |-> Undefined]
ProgressAt(n) == [k |-> "object", overall_progress |-> n]
ResultsOk == [k |-> "object", status |-> "success"]
ResultsFailed == [k |-> "object", status |-> "failed"]

\* One entry of a list response.
ListEntry(id, shape) ==
    CASE shape = "summary_completed" ->
            [EmptyObject EXCEPT !.task_id = Str(id), !.status = Str("completed"),
                                !.created_at = Created]
      [] shape = "summary_running" ->
            [EmptyObject EXCEPT !.task_id = Str(id), !.status = Str("running"),
                                !.created_at = Created, !.started_at = Started,
                                !.completed_at = Null]
      [] shape = "running_progress" ->
            [EmptyObject EXCEPT !.task_id = Str(id), !.status = Str("running"),
                                !.created_at = Created, !.started_at = Started,
                                !.completed_at = Null, !.progress = ProgressAt(40)]
      [] shape = "full_completed" ->
            [task_id |-> Str(id), status |-> Str("completed"), created_at |-> Created,
             started_at |-> Started, completed_at |-> Ended, config |-> ConfigFull,
             progress |-> Null, results |-> ResultsOk]

\* The detail records sent to a hydration request (the task is done) and to
\* a progress request (the task is done or still running).
HydrationKinds == {"completed"}
ProgressKinds == {"completed", "running"}

\* The record the detail endpoint sends for task `id`.
Detail(id, kind) ==
    CASE kind = "completed" ->
            [task_id |-> Str(id), status |-> Str("completed"), created_at |-> Created,
             started_at |-> Started, completed_at |-> Ended, config |-> ConfigFull,
             progress |-> ProgressAt(100), results |-> ResultsOk]
      [] kind = "running" ->
            [task_id |-> Str(id), status |-> Str("running"), created_at |-> Created,
             started_at |-> Started, completed_at |-> Null, config |-> ConfigFull,
             progress |-> ProgressAt(80), results |-> Null]

\* The list responses of the full model: sequences of entries.
ListResponses ==
    { <<>>,
      <<ListEntry("t1", "summary_completed")>>,
      <<ListEntry("t1", "summary_running")>>,
      <<ListEntry("t1", "running_progress")>>,
      <<ListEntry("t2", "summary_completed"), ListEntry("t1", "summary_running")>>,
      <<ListEntry("t1", "summary_running"), ListEntry("t2", "running_progress")>>,
      <<ListEntry("t1", "summary_completed"), ListEntry("t2", "full_completed"),
        ListEntry("t3", "summary_completed")>>,
      <<ListEntry("t1", "summary_completed"), ListEntry("t2", "summary_completed"),
        ListEntry("t3", "summary_completed"), ListEntry("t4", "summary_completed")>> }

(***************************************************************************)
(* Error texts, as sequences of characters so that String.includes is      *)
(* computed and not assumed.                                               *)
(***************************************************************************)
NoError == <<>>
MsgHealthCheckFailed ==
    <<"h","e","a","l","t","h"," ","c","h","e","c","k"," ","f","a","i","l","e","d">>
MsgFailedToFetch ==
    <<"F","a","i","l","e","d"," ","t","o"," ","f","e","t","c","h">>
MsgServiceUnavailable ==
    <<"5","0","3"," ","S","e","r","v","i","c","e"," ","U","n","a","v","a","i","l","a","b","l","e">>
MsgTaskListUnavailable ==
    <<"t","a","s","k"," ","l","i","s","t"," ","u","n","a","v","a","i","l","a","b","l","e">>
TextHealth == <<"h","e","a","l","t","h">>
TextFetch == <<"f","e","t","c","h">>
TextError == <<"E","r","r","o","r">>

\* The errors a rejected getTrainingHealth() / getAllTasks() carries.
HealthFailures == {[message |-> MsgHealthCheckFailed], [message |-> MsgServiceUnavailable]}
ListFailures == {[message |-> MsgTaskListUnavailable], [message |-> MsgFailedToFetch]}

\* String.prototype.includes
Includes(s, sub) ==
    \E i \in 0..(Len(s) - Len(sub)) : SubSeq(s, i + 1, i + Len(sub)) = sub

\* e?.message || String(e)
ErrorText(e) == IF e.message # <<>> THEN e.message ELSE TextError

HealthRecords ==
    {[status |-> "healthy", worker_running |-> TRUE],
     [status |-> "unhealthy", worker_running |-> FALSE]}

(***************************************************************************)
(* refreshTasks: the merge of a list response into tasks.value.            *)
(***************************************************************************)
\* MergeTask with the spreads in the other order: { ...nt, ...(ot || {}) }.
MergeTaskOldWins(prev, nt) ==
    LET idx == FindIndex(prev, nt.task_id)
        ot == IF idx = 0 THEN EmptyObject ELSE prev[idx]
    IN  [Spread(nt, ot) EXCEPT
            !.progress = IF Nullish(nt.progress) THEN ot.progress ELSE nt.progress]

\* MergeTask without the fallback: progress: nt.progress.
MergeTaskClobbersProgress(prev, nt) ==
    LET idx == FindIndex(prev, nt.task_id)
        ot == IF idx = 0 THEN EmptyObject ELSE prev[idx]
    IN  [Spread(ot, nt) EXCEPT !.progress = nt.progress]

\* One element of list.tasks.map(...): { ...(ot || {}), ...nt, progress: nt.progress ?? ot?.progress }
MergeTask(prev, nt) ==
    LET idx == FindIndex(prev, nt.task_id)
        ot == IF idx = 0 THEN EmptyObject ELSE prev[idx]
    IN  [Spread(ot, nt) EXCEPT
            !.progress = IF Nullish(nt.progress) THEN ot.progress ELSE nt.progress]

\* Merge that puts the merged entries in front of the prior tasks.
MergePrepends(prev, list) ==
    [i \in 1..Len(list) |-> MergeTask(prev, list[i])] \o prev

\* Merge that adds the merged entries to the prior tasks.
MergeAppends(prev, list) ==
    prev \o [i \in 1..Len(list) |-> MergeTask(prev, list[i])]

\* Merge that keeps the prior tasks the list no longer holds.
MergeKeepsAbsent(prev, list) ==
    [i \in 1..Len(list) |-> MergeTask(prev, list[i])]
        \o SelectSeq(prev, LAMBDA t : \A i \in 1..Len(list) : list[i].task_id # t.task_id)

Merge(prev, list) == [i \in 1..Len(list) |-> MergeTask(prev, list[i])]

(***************************************************************************)
(* hydrateMissingDetails                                                   *)
(***************************************************************************)
\* NeedsHydration with && for ||: only a task that lacks both is taken.
NeedsHydrationBothMissing(t) ==
    /\ t.status # Str("running")
    /\ (~Truthy(NumClasses(t.config)) /\ ~Truthy(t.results))

\* NeedsHydration without the status test.
NeedsHydrationAnyStatus(t) ==
    ~Truthy(NumClasses(t.config)) \/ ~Truthy(t.results)

\* NeedsHydration without the tests of config and results.
NeedsHydrationAnyFields(t) == t.status # Str("running")

\* The filter predicate of needsHydration.
NeedsHydration(t) ==
    /\ t.status # Str("running")
    /\ (~Truthy(NumClasses(t.config)) \/ ~Truthy(t.results))

\* The task_ids of the filtered tasks: all a run reads of its candidates.
Candidates(ts) ==
    LET sel == SelectSeq(ts, NeedsHydration)
    IN  [i \in 1..Len(sel) |-> sel[i].task_id]

Min(a, b) == IF a < b THEN a ELSE b

\* Batch without the end of the slice: needsHydration.slice(i).
BatchUnbounded(cands, i) == SubSeq(cands, i + 1, Len(cands))

\* needsHydration.slice(i, i + CONCURRENCY), i counted from 0.
Batch(cands, i) == SubSeq(cands, i + 1, Min(i + CONCURRENCY, Len(cands)))

Rejected == [status |-> "rejected"]
Fulfilled(v) == [status |-> "fulfilled", value |-> v]

\* HydrationPatch that writes the status of the response too.
HydrationPatchWithStatus(cur, updated) ==
    [cur EXCEPT !.status = updated.status,
                !.config = updated.config, !.results = updated.results,
                !.started_at = updated.started_at,
                !.completed_at = updated.completed_at]

\* The object written at tasks.value[taskIndex] by a hydration patch.
HydrationPatch(cur, updated) ==
    [cur EXCEPT !.config = updated.config, !.results = updated.results,
                !.started_at = updated.started_at,
                !.completed_at = updated.completed_at]

\* ApplyHydrationResult that adds the response when the Store has no such
\* task.
ApplyHydrationResultUpserts(ts, res) ==
    IF res.status = "fulfilled"
    THEN LET taskIndex == FindIndex(ts, res.value.task_id)
         IN  IF taskIndex # 0
             THEN [ts EXCEPT ![taskIndex] = HydrationPatch(ts[taskIndex], res.value)]
             ELSE Append(ts, res.value)
    ELSE ts

\* One step of details.forEach: a fulfilled result patches the task it names.
ApplyHydrationResult(ts, res) ==
    IF res.status = "fulfilled"
    THEN LET taskIndex == FindIndex(ts, res.value.task_id)
         IN  IF taskIndex # 0
             THEN [ts EXCEPT ![taskIndex] = HydrationPatch(ts[taskIndex], res.value)]
             ELSE ts
    ELSE ts

\* ApplyHydration as after Promise.all: one rejection and nothing is patched.
RECURSIVE ApplyHydrationAllOrNothing(_, _, _)
ApplyHydrationAllOrNothing(ts, out, k) ==
    IF \E j \in 1..Len(out) : out[j].status = "rejected" THEN ts
    ELSE IF k > Len(out) THEN ts
    ELSE ApplyHydrationAllOrNothing(ApplyHydrationResult(ts, out[k]), out, k + 1)

RECURSIVE ApplyHydration(_, _, _)
ApplyHydration(ts, out, k) ==
    IF k > Len(out) THEN ts
    ELSE ApplyHydration(ApplyHydrationResult(ts, out[k]), out, k + 1)

\* One element of the array Promise.allSettled resolves with, for the
\* request of task id.
SettledResult(id, outcome) ==
    IF outcome = "rejected" THEN Rejected ELSE Fulfilled(Detail(id.s, outcome))

\* The arrays Promise.allSettled can resolve with for requests of ids: per
\* request, a rejection or a detail record of one of the kinds.
SettledResults(ids, kinds) ==
    { [k \in 1..Len(ids) |-> SettledResult(ids[k], o[k])] :
        o \in [1..Len(ids) -> {"rejected"} \cup kinds] }

\* A refreshTasks invocation: where it is suspended and its locals (list of
\* refreshTasks; of the hydration run, needsHydration as task_ids and the
\* loop index i; the batch being awaited is Batch(cands, i)).  out holds,
\* per candidate, how the promise of its request stands: "pending" until
\* the request settles; sent and batches count the getTaskProgress calls and
\* the Promise.allSettled calls the run has made.
Fetching ==
    [pc |-> "fetching", list |-> <<>>, cands |-> <<>>, i |-> 0, out |-> <<>>,
     sent |-> 0, batches |-> 0]

\* refreshTasks from the resolution of getAllTasks() to the first await of
\* hydrateMissingDetails, which reads the merged Store.
HydrateStart(list, prev) ==
    LET cands == Candidates(Merge(prev, list))
    IN  [pc |-> "hydrating", list |-> list, cands |-> cands, i |-> 0,
         out |-> [k \in 1..Len(cands) |-> "pending"],
         sent |-> Len(Batch(cands, 0)),
         batches |-> IF Len(cands) = 0 THEN 0 ELSE 1]

\* Whether a run standing at the top of the for loop has a batch to issue.
HasBatch(run) == run.i < Len(run.cands)

\* The sequence s without its element at index p.
RemoveAt(s, p) == SubSeq(s, 1, p - 1) \o SubSeq(s, p + 1, Len(s))

\* The invocations after invocation p reached the top of the for loop as
\* run: it awaits its next batch, or it has returned and is gone.
Continue(rs, p, run) ==
    IF HasBatch(run) THEN [rs EXCEPT ![p] = run] ELSE RemoveAt(rs, p)

(***************************************************************************)
(* refreshProgress                                                         *)
(***************************************************************************)
\* RunningIds without the filter.
RunningIdsAll(ts) == [i \in 1..Len(ts) |-> ts[i].task_id]

\* The task_ids of tasks.value.filter(t => t.status === 'running').
RunningIds(ts) ==
    LET sel == SelectSeq(ts, LAMBDA t : t.status = Str("running"))
    IN  [i \in 1..Len(sel) |-> sel[i].task_id]

\* ProgressPatch that leaves a task the Store shows as completed alone.
ProgressPatchUnlessCompleted(cur, updated) ==
    IF cur.status = Str("completed") THEN cur
    ELSE [cur EXCEPT !.status = updated.status, !.progress = updated.progress,
                     !.results = updated.results, !.started_at = updated.started_at,
                     !.completed_at = updated.completed_at]

\* ProgressPatch that stores the response as the task: tasks.value[i] = updated.
ProgressPatchWholeRecord(cur, updated) == updated

\* The object written at tasks.value[i] by a progress patch.
ProgressPatch(cur, updated) ==
    [cur EXCEPT !.status = updated.status, !.progress = updated.progress,
                !.results = updated.results, !.started_at = updated.started_at,
                !.completed_at = updated.completed_at]

\* One step of updates.forEach.
ApplyProgressResult(ts, res) ==
    IF res.status = "fulfilled"
    THEN LET i == FindIndex(ts, res.value.task_id)
         IN  IF i # 0
             THEN [ts EXCEPT ![i] = ProgressPatch(ts[i], res.value)]
             ELSE ts
    ELSE ts

\* ApplyProgress as after Promise.all: one rejection and nothing is patched.
RECURSIVE ApplyProgressAllOrNothing(_, _, _)
ApplyProgressAllOrNothing(ts, out, k) ==
    IF \E j \in 1..Len(out) : out[j].status = "rejected" THEN ts
    ELSE IF k > Len(out) THEN ts
    ELSE ApplyProgressAllOrNothing(ApplyProgressResult(ts, out[k]), out, k + 1)

RECURSIVE ApplyProgress(_, _, _)
ApplyProgress(ts, out, k) ==
    IF k > Len(out) THEN ts
    ELSE ApplyProgress(ApplyProgressResult(ts, out[k]), out, k + 1)

\* refreshProgress from its call to its await: nothing is awaited when no
\* task runs, else one request per running task.
ProgressStart(ps, ts) ==
    IF Len(RunningIds(ts)) = 0 THEN ps ELSE Append(ps, [ids |-> RunningIds(ts)])

(***************************************************************************)
(* The configuration and the timers                                        *)
(***************************************************************************)
ConfigKeys == {"healthIntervalMs", "tasksIntervalMs", "progressIntervalMs"}

\* defaultConfig when the environment sets none of the VITE_POLL_* values.
DefaultConfig ==
    [healthIntervalMs |-> 30000, tasksIntervalMs |-> 15000, progressIntervalMs |-> 1000]

\* The arguments of setConfig: objects that carry some of the keys.
PartialConfigs ==
    { [k \in {} |-> 0],
      [k \in {"progressIntervalMs"} |-> 500],
      [k \in {"healthIntervalMs", "tasksIntervalMs"} |-> 5000] }

\* { ...config.value, ...next } without the keys of next.
MergeConfigReplaces(cfg, next) ==
    [k \in ConfigKeys |-> IF k \in DOMAIN next THEN next[k] ELSE DefaultConfig[k]]

\* { ...config.value, ...next }
MergeConfig(cfg, next) ==
    [k \in ConfigKeys |-> IF k \in DOMAIN next THEN next[k] ELSE cfg[k]]

\* The timer window.setInterval(handler, ms) arms, with the handle it returns.
Interval(id, handler, ms) == [id |-> id, handler |-> handler, ms |-> ms]

\* ClearInterval that cancels nothing.
ClearIntervalNothing(ivs, h) == ivs

\* if (h) clearInterval(h)
ClearInterval(ivs, h) ==
    IF Truthy(h) THEN { t \in ivs : t.id # h.n } ELSE ivs

\* The armed timers after the three clearInterval calls of stopPolling.
Cleared(ivs) ==
    ClearInterval(ClearInterval(ClearInterval(ivs, healthTimer), tasksTimer),
                  progressTimer)

\* Armed that reads every interval from the health setting.
ArmedOneInterval(cfg, id) ==
    { Interval(id + 1, "refreshHealth", cfg.healthIntervalMs),
      Interval(id + 2, "refreshTasks", cfg.healthIntervalMs),
      Interval(id + 3, "refreshProgress", cfg.healthIntervalMs) }

\* The three timers startPolling arms under cfg after handle id was the last
\* one given out.
Armed(cfg, id) ==
    { Interval(id + 1, "refreshHealth", cfg.healthIntervalMs),
      Interval(id + 2, "refreshTasks", cfg.tasksIntervalMs),
      Interval(id + 3, "refreshProgress", cfg.progressIntervalMs) }

(***************************************************************************)
(* The state after useTrainingPolling() has built its refs.                *)
(***************************************************************************)
InitPolling ==
    /\ config = DefaultConfig
    /\ healthTimer = Null
    /\ tasksTimer = Null
    /\ progressTimer = Null
    /\ intervals = {}
    /\ lastId = 0

Init ==
    /\ health = Null
    /\ tasks = <<>>
    /\ error = NoError
    /\ calls = 0
    /\ healthReqs = 0
    /\ refreshes = <<>>
    /\ progresses = <<>>
    /\ InitPolling

(***************************************************************************)
(* refreshHealth                                                           *)
(***************************************************************************)
\* refreshHealth() is called (a timer tick or the exported function) and
\* suspends at await getTrainingHealth().
RefreshHealth ==
    /\ calls < MaxCalls
    /\ calls' = calls + 1
    /\ healthReqs' = healthReqs + 1
    /\ UNCHANGED <<health, tasks, error, refreshes, progresses, polling>>

\* ErrorAfterHealthOk that clears whatever the text.
ErrorAfterHealthOkAlways(err) == NoError

\* The error left by the try branch of refreshHealth.
ErrorAfterHealthOk(err) ==
    IF Includes(err, TextHealth) \/ Includes(err, TextFetch) THEN NoError ELSE err

\* getTrainingHealth() resolved with h.
HealthOk(h) ==
    /\ healthReqs > 0
    /\ healthReqs' = healthReqs - 1
    /\ health' = h
    /\ error' = ErrorAfterHealthOk(error)
    /\ UNCHANGED <<tasks, calls, refreshes, progresses, polling>>

\* HealthFail that keeps the stale health record.
HealthFailKeepsRecord(e) ==
    /\ healthReqs > 0
    /\ healthReqs' = healthReqs - 1
    /\ health' = health
    /\ error' = ErrorText(e)
    /\ UNCHANGED <<tasks, calls, refreshes, progresses, polling>>

\* getTrainingHealth() rejected with e.
HealthFail(e) ==
    /\ healthReqs > 0
    /\ healthReqs' = healthReqs - 1
    /\ health' = Null
    /\ error' = ErrorText(e)
    /\ UNCHANGED <<tasks, calls, refreshes, progresses, polling>>

(***************************************************************************)
(* refreshTasks and the hydration run it awaits                            *)
(***************************************************************************)
\* refreshTasks() is called and suspends at await getAllTasks().
RefreshTasks ==
    /\ calls < MaxCalls
    /\ calls' = calls + 1
    /\ refreshes' = Append(refreshes, Fetching)
    /\ UNCHANGED <<health, tasks, error, healthReqs, progresses, polling>>

\* TasksOk that empties the error on success.
TasksOkClearsError(p, list) ==
    /\ refreshes[p].pc = "fetching"
    /\ tasks' = Merge(tasks, list)
    /\ error' = NoError
    /\ refreshes' = Continue(refreshes, p, HydrateStart(list, tasks))
    /\ UNCHANGED <<health, calls, healthReqs, progresses, polling>>

\* getAllTasks() resolved with list for invocation p: the merge is installed
\* and hydrateMissingDetails runs to its first await (or returns).
TasksOk(p, list) ==
    /\ refreshes[p].pc = "fetching"
    /\ tasks' = Merge(tasks, list)
    /\ refreshes' = Continue(refreshes, p, HydrateStart(list, tasks))
    /\ UNCHANGED <<health, error, calls, healthReqs, progresses, polling>>

\* TasksFail that backs off: the list interval is doubled and the list
\* timer armed again with it.
TasksFailBacksOff(p, e) ==
    /\ refreshes[p].pc = "fetching"
    /\ error' = ErrorText(e)
    /\ refreshes' = RemoveAt(refreshes, p)
    /\ config' = [config EXCEPT !.tasksIntervalMs = 2 * @]
    /\ intervals' = { IF t.handler = "refreshTasks"
                        THEN [t EXCEPT !.ms = 2 * config.tasksIntervalMs] ELSE t :
                      t \in intervals }
    /\ UNCHANGED <<health, tasks, calls, healthReqs, progresses>>
    /\ UNCHANGED <<healthTimer, tasksTimer, progressTimer, lastId>>

\* TasksFail that empties the Store.
TasksFailErasesTasks(p, e) ==
    /\ refreshes[p].pc = "fetching"
    /\ error' = ErrorText(e)
    /\ tasks' = <<>>
    /\ refreshes' = RemoveAt(refreshes, p)
    /\ UNCHANGED <<health, calls, healthReqs, progresses, polling>>

\* getAllTasks() rejected with e: the catch of refreshTasks.
TasksFail(p, e) ==
    /\ refreshes[p].pc = "fetching"
    /\ error' = ErrorText(e)
    /\ refreshes' = RemoveAt(refreshes, p)
    /\ UNCHANGED <<health, tasks, calls, healthReqs, progresses, polling>>

\* Run at the top of the for loop with index i: the calls of the batch it
\* issues there, if any, are counted.
AtLoopTop(run, i) ==
    [run EXCEPT !.i = i,
                !.sent = @ + Len(Batch(run.cands, i)),
                !.batches = @ + (IF i < Len(run.cands) THEN 1 ELSE 0)]

\* HydrationSettled with i += 1 for i += CONCURRENCY.
HydrationSettledStepsOne(p, details) ==
    /\ refreshes[p].pc = "hydrating"
    /\ tasks' = ApplyHydration(tasks, details, 1)
    /\ refreshes' = Continue(refreshes, p, AtLoopTop(refreshes[p], refreshes[p].i + 1))
    /\ UNCHANGED <<health, error, calls, healthReqs, progresses, polling>>

\* Promise.allSettled of run p's batch resolved with details: the forEach
\* patches the Store and the loop goes on to the next batch.
HydrationSettled(p, details) ==
    /\ refreshes[p].pc = "hydrating"
    /\ tasks' = ApplyHydration(tasks, details, 1)
    /\ refreshes' = Continue(refreshes, p,
            AtLoopTop(refreshes[p], refreshes[p].i + CONCURRENCY))
    /\ UNCHANGED <<health, error, calls, healthReqs, progresses, polling>>

(***************************************************************************)
(* refreshProgress                                                         *)
(***************************************************************************)
\* refreshProgress() is called: it returns at once or suspends at
\* await Promise.allSettled(...).
RefreshProgress ==
    /\ calls < MaxCalls
    /\ calls' = calls + 1
    /\ progresses' = ProgressStart(progresses, tasks)
    /\ UNCHANGED <<health, tasks, error, healthReqs, refreshes, polling>>

\* Promise.allSettled of progress tick q resolved with updates.
ProgressSettled(q, updates) ==
    /\ tasks' = ApplyProgress(tasks, updates, 1)
    /\ progresses' = RemoveAt(progresses, q)
    /\ UNCHANGED <<health, error, calls, healthReqs, refreshes, polling>>

(***************************************************************************)
(* startPolling, stopPolling, setConfig and the timer ticks                *)
(***************************************************************************)
\* StopPolling that also drops the calls that are awaiting a response.
StopPollingAborts ==
    /\ intervals' = Cleared(intervals)
    /\ healthTimer' = Null
    /\ tasksTimer' = Null
    /\ progressTimer' = Null
    /\ healthReqs' = 0
    /\ refreshes' = <<>>
    /\ progresses' = <<>>
    /\ UNCHANGED <<config, lastId>>
    /\ UNCHANGED <<health, tasks, error, calls>>

\* stopPolling()
StopPolling ==
    /\ intervals' = Cleared(intervals)
    /\ healthTimer' = Null
    /\ tasksTimer' = Null
    /\ progressTimer' = Null
    /\ UNCHANGED <<config, lastId>>
    /\ UNCHANGED <<health, tasks, error, calls, healthReqs, refreshes, progresses>>

\* The body of startPolling with config.value = cfg: stopPolling(), the three
\* handlers run to their first await one after the other, three timers armed.
Restart(cfg) ==
    /\ calls < MaxCalls
    /\ lastId < 3 * MaxStarts
    /\ calls' = calls + 1
    /\ healthReqs' = healthReqs + 1
    /\ refreshes' = Append(refreshes, Fetching)
    /\ progresses' = ProgressStart(progresses, tasks)
    /\ intervals' = Cleared(intervals) \cup Armed(cfg, lastId)
    /\ healthTimer' = Num(lastId + 1)
    /\ tasksTimer' = Num(lastId + 2)
    /\ progressTimer' = Num(lastId + 3)
    /\ lastId' = lastId + 3
    /\ UNCHANGED <<health, tasks, error>>

\* startPolling()
StartPolling ==
    /\ Restart(config)
    /\ UNCHANGED config

\* setConfig(next)
SetConfig(next) ==
    /\ config' = MergeConfig(config, next)
    /\ Restart(config')

\* An armed timer fires and calls its handler.
TickHealth ==
    /\ \E t \in intervals : t.handler = "refreshHealth"
    /\ RefreshHealth

TickTasks ==
    /\ \E t \in intervals : t.handler = "refreshTasks"
    /\ RefreshTasks

TickProgress ==
    /\ \E t \in intervals : t.handler = "refreshProgress"
    /\ RefreshProgress

Next ==
    \/ RefreshHealth
    \/ \E h \in HealthRecords : HealthOk(h)
    \/ \E e \in HealthFailures : HealthFail(e)
    \/ RefreshTasks
    \/ \E p \in 1..Len(refreshes), list \in ListResponses : TasksOk(p, list)
    \/ \E p \in 1..Len(refreshes), e \in ListFailures : TasksFail(p, e)
    \/ \E p \in 1..Len(refreshes) :
            \E details \in SettledResults(Batch(refreshes[p].cands, refreshes[p].i),
                                           HydrationKinds) :
                HydrationSettled(p, details)
    \/ RefreshProgress
    \/ \E q \in 1..Len(progresses) :
            \E updates \in SettledResults(progresses[q].ids, ProgressKinds) :
                ProgressSettled(q, updates)

Spec == Init /\ [][Next]_vars

(***************************************************************************)
(* The composable under its timers: the handlers are called by startPolling *)
(* and by the ticks of the timers it arms.                                 *)
(***************************************************************************)
\* The list responses of the polling model.
PollingLists ==
    { <<ListEntry("t1", "summary_completed")>>,
      <<ListEntry("t1", "summary_running")>> }

NextPolling ==
    \/ StartPolling
    \/ StopPolling
    \/ \E next \in PartialConfigs : SetConfig(next)
    \/ TickHealth
    \/ TickTasks
    \/ TickProgress
    \/ \E h \in HealthRecords : HealthOk(h)
    \/ HealthFail([message |-> MsgHealthCheckFailed])
    \/ \E p \in 1..Len(refreshes), list \in PollingLists : TasksOk(p, list)
    \/ \E p \in 1..Len(refreshes) : TasksFail(p, [message |-> MsgTaskListUnavailable])
    \/ \E p \in 1..Len(refreshes) :
            \E details \in SettledResults(Batch(refreshes[p].cands, refreshes[p].i),
                                           HydrationKinds) :
                HydrationSettled(p, details)
    \/ \E q \in 1..Len(progresses) :
            \E updates \in SettledResults(progresses[q].ids, ProgressKinds) :
                ProgressSettled(q, updates)

SpecPolling == Init /\ [][NextPolling]_vars

(***************************************************************************)
(* One hydration run, request by request: a refreshTasks invocation merges *)
(* a list of up to MaxTasks tasks into the empty Store, and each detail    *)
(* request of the batch it awaits settles on its own before               *)
(* Promise.allSettled resolves.                                            *)
(***************************************************************************)
TaskNames == <<"t1", "t2", "t3", "t4", "t5", "t6", "t7", "t8", "t9">>

\* Lists of n tasks that all lack their details, and the same lists with a
\* second task that has them.
HydrationLists ==
    { [i \in 1..n |-> ListEntry(TaskNames[i], "summary_completed")] : n \in 0..MaxTasks }
        \cup { [i \in 1..n |-> ListEntry(TaskNames[i],
                    IF i = 2 THEN "full_completed" ELSE "summary_completed")] :
                 n \in 2..MaxTasks }

\* The places in cands of the requests of the batch run awaits.
Awaited(run) == (run.i + 1)..(run.i + Len(Batch(run.cands, run.i)))

\* The getTaskProgress request for candidate k of run p settles.
RequestSettles(p, k, outcome) ==
    /\ refreshes[p].pc = "hydrating"
    /\ k \in Awaited(refreshes[p])
    /\ refreshes[p].out[k] = "pending"
    /\ refreshes' = [refreshes EXCEPT ![p].out[k] = outcome]
    /\ UNCHANGED <<health, tasks, error, calls, healthReqs, progresses, polling>>

\* Promise.allSettled resolves once each promise it was given has settled,
\* with their results in the order of the batch.
BatchSettled(run) == \A k \in Awaited(run) : run.out[k] # "pending"

BatchResults(run) ==
    [j \in 1..Len(Batch(run.cands, run.i)) |->
        SettledResult(run.cands[run.i + j], run.out[run.i + j])]

\* The await of run p's batch resumes.
HydrationResolves(p) ==
    /\ refreshes[p].pc = "hydrating"
    /\ BatchSettled(refreshes[p])
    /\ HydrationSettled(p, BatchResults(refreshes[p]))

InitHydration ==
    /\ health = Null
    /\ tasks = <<>>
    /\ error = NoError
    /\ calls = 1
    /\ healthReqs = 0
    /\ refreshes = <<Fetching>>
    /\ progresses = <<>>
    /\ InitPolling

NextHydration ==
    \/ \E p \in 1..Len(refreshes), list \in HydrationLists : TasksOk(p, list)
    \/ \E p \in 1..Len(refreshes), k \in 1..MaxTasks,
            outcome \in {"rejected"} \cup HydrationKinds :
                RequestSettles(p, k, outcome)
    \/ \E p \in 1..Len(refreshes) : HydrationResolves(p)

SpecHydration == InitHydration /\ [][NextHydration]_vars

\* The same with every response arriving in the end: the list response, each
\* detail response, and the resumption of the await once the batch settled.
SpecHydrationFair == SpecHydration /\ WF_vars(NextHydration)

(***************************************************************************)
(* The merge on its own: one refreshTasks invocation awaits getAllTasks()  *)
(* over a Store drawn from PriorStores, and the response is drawn from     *)
(* MergeSnapshots.  Every prior Store is one that list responses install.  *)
(***************************************************************************)
\* The objects a Store holds for task id before the merge.
PriorObjects(id) ==
    [task_id : {Str(id)}, status : {Str("running")}, created_at : {Created},
     started_at : {Undefined, Started}, completed_at : {Null},
     config : {Undefined, ConfigPartial}, progress : {Undefined, ProgressAt(40)},
     results : {Undefined, ResultsOk}]

\* The entries a list response holds for task id.
SnapshotObjects(id) ==
    [task_id : {Str(id)}, status : {Str("running"), Str("completed")},
     created_at : {Created}, started_at : {Undefined, Null, Ended},
     completed_at : {Undefined, Ended}, config : {Undefined, ConfigFull},
     progress : {Undefined, Null, ProgressAt(80)},
     results : {Undefined, ResultsFailed}]

PriorStores ==
    {<<>>}
        \cup { <<a>> : a \in PriorObjects("t1") }
        \cup { <<ListEntry("t2", "full_completed"), a>> : a \in PriorObjects("t1") }

MergeSnapshots ==
    {<<>>}
        \cup { <<e>> : e \in SnapshotObjects("t1") }
        \cup { <<e, ListEntry("t3", "summary_running")>> : e \in SnapshotObjects("t1") }

InitMerge ==
    /\ health = Null
    /\ tasks \in PriorStores
    /\ error = NoError
    /\ calls = 1
    /\ healthReqs = 0
    /\ refreshes = <<Fetching>>
    /\ progresses = <<>>
    /\ InitPolling

NextMerge ==
    \E p \in 1..Len(refreshes), list \in MergeSnapshots : TasksOk(p, list)

SpecMerge == InitMerge /\ [][NextMerge]_vars

(***************************************************************************)
(* Properties                                                              *)
(***************************************************************************)
\* The task_ids of a sequence of task objects, in order.
Ids(ts) == [i \in 1..Len(ts) |-> ts[i].task_id]

IdSet(ts) == { ts[i].task_id : i \in 1..Len(ts) }

HasEntry(ts, id) == \E i \in 1..Len(ts) : ts[i].task_id = id

\* The entry of ts for id (ts holds one).
EntryOf(ts, id) == ts[CHOOSE i \in 1..Len(ts) : ts[i].task_id = id]

\* The value the Store knew for field f of task id before a merge.
PriorValue(ts, id, f) == IF HasEntry(ts, id) THEN EntryOf(ts, id)[f] ELSE Undefined

\* An entry has field f when the response carries the key, whatever its value.
Carries(nt, f) == nt[f] # Undefined

\* A field is populated when it holds a value other than undefined and null.
Populated(v) == v # Undefined /\ v # Null

\* C1: the merge gives, for each entry of the snapshot in turn, an object
\* whose every field but progress is the snapshot's when the entry has the
\* field and the prior entry's otherwise (undefined without a prior entry),
\* and whose progress is the snapshot's when that is a progress object and
\* the prior entry's otherwise.
C1_MergePerTask ==
    [][\A p \in 1..Len(refreshes), list \in MergeSnapshots :
          TasksOk(p, list) =>
            /\ Len(tasks') = Len(list)
            /\ \A i \in 1..Len(list) :
                 /\ \A f \in Fields \ {"progress"} :
                      tasks'[i][f] =
                        IF Carries(list[i], f) THEN list[i][f]
                        ELSE PriorValue(tasks, list[i].task_id, f)
                 /\ tasks'[i].progress =
                        IF Populated(list[i].progress) THEN list[i].progress
                        ELSE PriorValue(tasks, list[i].task_id, "progress")]_vars

\* A merge has acted on a prior entry and an entry for the same task that
\* mix both cases: status and completed_at come from the response, which
\* carries no config and a null progress; config and progress come from the
\* prior entry.
C1_Witness ==
    \E p \in 1..Len(refreshes) :
        /\ refreshes[p].pc = "hydrating"
        /\ Len(refreshes[p].list) = 1
        /\ refreshes[p].list[1].status = Str("completed")
        /\ refreshes[p].list[1].config = Undefined
        /\ refreshes[p].list[1].progress = Null
        /\ refreshes[p].list[1].completed_at = Ended
        /\ Len(tasks) = 1
        /\ tasks[1].status = Str("completed")
        /\ tasks[1].completed_at = Ended
        /\ tasks[1].config = ConfigPartial
        /\ tasks[1].progress = ProgressAt(40)

\* C2: a merge leaves populated every field that was populated in the prior
\* entry of a task of the snapshot, unless the snapshot entry carries the
\* field; a prior progress of 40 is still there after a merge with an entry
\* that has no progress.
C2_NoBlanking ==
    [][\A p \in 1..Len(refreshes), list \in MergeSnapshots :
          TasksOk(p, list) =>
            \A i \in 1..Len(list) :
              HasEntry(tasks, list[i].task_id) =>
                LET ot == EntryOf(tasks, list[i].task_id)
                IN  /\ i <= Len(tasks')
                    /\ \A f \in Fields :
                         (Populated(ot[f]) /\ ~Carries(list[i], f))
                            => Populated(tasks'[i][f])
                    /\ (ot.progress = ProgressAt(40) /\ ~Carries(list[i], "progress"))
                            => tasks'[i].progress = ProgressAt(40)]_vars

\* The scenario of the claim: the response for t1 says running and has no
\* progress key, and the Store still shows the progress of 40 it had, with
\* the results the response did not carry either.
C2_Witness ==
    /\ refreshes = <<>>
    /\ Len(tasks) = 1
    /\ tasks[1].status = Str("running")
    /\ tasks[1].started_at = Ended
    /\ tasks[1].config = ConfigFull
    /\ tasks[1].progress = ProgressAt(40)
    /\ tasks[1].results = ResultsOk

\* C3: right after a list response is merged, the Store holds the task_ids
\* of the response, in the order of the response, and none of the prior ids
\* the response does not hold.
C3_MembershipReplace ==
    [][\A p \in 1..Len(refreshes), list \in ListResponses :
          TasksOk(p, list) =>
            /\ Ids(tasks') = Ids(list)
            /\ \A id \in IdSet(tasks) \ IdSet(list) : ~HasEntry(tasks', id)]_vars

\* Two invocations overlap: the first merged the list of four tasks and
\* still awaits its first batch, the second then merged the list of t1
\* alone, and t2, t3 and t4 are gone from the Store.
C3_Witness ==
    /\ Len(refreshes) = 2
    /\ refreshes[1].pc = "hydrating" /\ refreshes[1].i = 0
    /\ Len(refreshes[1].list) = 4
    /\ refreshes[2].pc = "hydrating" /\ refreshes[2].i = 0
    /\ Ids(refreshes[2].list) = <<Str("t1")>>
    /\ Ids(tasks) = <<Str("t1")>>

\* The detail requests of hydration runs that are issued and not settled:
\* those of the batch each hydrating invocation awaits.
RECURSIVE OutstandingFrom(_, _)
OutstandingFrom(rs, p) ==
    IF p > Len(rs) THEN 0
    ELSE (IF rs[p].pc = "hydrating" THEN Len(Batch(rs[p].cands, rs[p].i)) ELSE 0)
            + OutstandingFrom(rs, p + 1)

HydrationOutstanding == OutstandingFrom(refreshes, 1)

\* C4: at most CONCURRENCY hydration detail requests are outstanding at the
\* same time, overlapping list refreshes included.
C4_HydrationBound == HydrationOutstanding <= CONCURRENCY

\* A task lacks config.num_classes or results when the value is not there.
MissingNumClasses(t) ==
    \/ t.config \in {Undefined, Null}
    \/ t.config.num_classes \in {Undefined, Null}

MissingResults(t) == t.results \in {Undefined, Null}

\* The places in the Store ts of the tasks the claims call candidates.
ExpectedCandidates(ts) ==
    { i \in 1..Len(ts) :
        /\ ts[i].status # Str("running")
        /\ (MissingNumClasses(ts[i]) \/ MissingResults(ts[i])) }

\* What the hydration run that starts in a step from refreshes to rs selected
\* for invocation p: the candidates of the invocation when it goes on to
\* await a batch, none when it returned at once.
Selected(rs, p) ==
    IF Len(rs) = Len(refreshes) THEN rs[p].cands ELSE <<>>

\* C5: the candidates a hydration run selects are exactly the tasks of the
\* Store that are not running and lack config.num_classes or results.
C5_CandidateSet ==
    [][\A p \in 1..Len(refreshes), list \in ListResponses :
          TasksOk(p, list) =>
            LET cands == Selected(refreshes', p)
                expected == ExpectedCandidates(tasks')
            IN  /\ { cands[k] : k \in 1..Len(cands) }
                        = { tasks'[i].task_id : i \in expected }
                /\ Len(cands) = Cardinality(expected)]_vars

\* The first list fetch, into the empty Store, returned a completed t2
\* without results and a running t1 without config, progress or results:
\* the run selected t2 and not t1.
C5_Witness ==
    /\ calls = 1
    /\ Len(refreshes) = 1
    /\ refreshes[1].pc = "hydrating" /\ refreshes[1].i = 0
    /\ refreshes[1].cands = <<Str("t2")>>
    /\ Ids(tasks) = <<Str("t2"), Str("t1")>>
    /\ tasks[1].status = Str("completed") /\ tasks[1].results = Undefined
    /\ tasks[2].status = Str("running") /\ tasks[2].config = Undefined
    /\ tasks[2].results = Undefined

\* C6: no hydration run selects a task whose status is completed
\* and whose results are populated.
C6_CompletedWithResultsNeverSelected ==
    [][\A p \in 1..Len(refreshes), list \in ListResponses :
          TasksOk(p, list) =>
            LET cands == Selected(refreshes', p)
            IN  \A k \in 1..Len(cands) :
                  LET t == EntryOf(tasks', cands[k])
                  IN  ~(t.status = Str("completed") /\ Populated(t.results))]_vars

\* C6, amended: no hydration run selects a task whose status is completed,
\* whose results are populated and whose config carries num_classes.
C6_HydratedNeverSelected ==
    [][\A p \in 1..Len(refreshes), list \in ListResponses :
          TasksOk(p, list) =>
            LET cands == Selected(refreshes', p)
            IN  \A k \in 1..Len(cands) :
                  LET t == EntryOf(tasks', cands[k])
                  IN  ~(/\ t.status = Str("completed")
                        /\ Populated(t.results)
                        /\ ~MissingNumClasses(t))]_vars

\* A list refresh that returned the four summaries selected t1 and t4 and
\* neither t2 nor t3, which an earlier hydration had left completed with
\* results and a full config.
C6_Witness ==
    \E p \in 1..Len(refreshes) :
        /\ refreshes[p].pc = "hydrating" /\ refreshes[p].i = 0
        /\ Len(refreshes[p].list) = 4
        /\ refreshes[p].cands = <<Str("t1"), Str("t4")>>
        /\ Len(tasks) = 4
        /\ \A i \in {2, 3} :
             /\ tasks[i].status = Str("completed")
             /\ tasks[i].results = ResultsOk
             /\ tasks[i].config = ConfigFull

\* s holds sub as a run of consecutive characters.
Contains(s, sub) ==
    \E i \in 1..Len(s), j \in 1..Len(s) : SubSeq(s, i, j) = sub

\* C7: a health fetch that succeeds empties the error when its text holds
\* 'health' or 'fetch' and leaves it as it is otherwise; 'health check
\* failed' is cleared and 'task list unavailable' is not.
C7_ErrorCorrelation ==
    [][\A h \in HealthRecords :
          HealthOk(h) =>
            /\ (Contains(error, TextHealth) \/ Contains(error, TextFetch))
                    => error' = NoError
            /\ ~(Contains(error, TextHealth) \/ Contains(error, TextFetch))
                    => error' = error
            /\ error = MsgHealthCheckFailed => error' = NoError
            /\ error = MsgTaskListUnavailable => error' = MsgTaskListUnavailable]_vars

\* A health fetch failed with '503 Service Unavailable', which emptied the
\* health record; a later one succeeded, set the record, and left that text,
\* which holds neither 'health' nor 'fetch'.
C7_Witness ==
    /\ error = MsgServiceUnavailable
    /\ health # Null
    /\ healthReqs = 0

\* C8: a health fetch that fails sets the health record to null and the
\* error to the failure's message, and leaves the tasks as they are.
C8_HealthFailure ==
    [][\A e \in HealthFailures :
          HealthFail(e) =>
            /\ health' = Null
            /\ error' = e.message
            /\ tasks' = tasks]_vars

\* A health fetch has failed over a Store that holds tasks: no record, the
\* failure's message, the tasks still there.
C8_Witness ==
    /\ health = Null
    /\ error = MsgHealthCheckFailed
    /\ healthReqs = 0
    /\ Len(tasks) > 0

\* The hydrating invocations of rs.
Hydrating(rs) == SelectSeq(rs, LAMBDA r : r.pc = "hydrating")

\* C9: a list fetch that fails sets the error to the failure's message,
\* leaves the tasks exactly as they are and starts no hydration run.
C9_ListFailure ==
    [][\A p \in 1..Len(refreshes), e \in ListFailures :
          TasksFail(p, e) =>
            /\ error' = e.message
            /\ tasks' = tasks
            /\ Hydrating(refreshes') = Hydrating(refreshes)]_vars

\* The list fetch failed after an earlier one had filled the Store: the
\* error shows the failure, the tasks are there, nothing is hydrating.
C9_Witness ==
    /\ error = MsgTaskListUnavailable
    /\ Len(tasks) > 0
    /\ refreshes = <<>>

\* C10: whatever the results of a hydration batch, the error stays as it
\* is; a task whose request was rejected keeps its fields, and a task of
\* the Store whose request was fulfilled holds the config, results,
\* started_at and completed_at of the response.
C10_HydrationFailuresInvisible ==
    [][\A p \in 1..Len(refreshes) :
          refreshes[p].pc = "hydrating" =>
            LET batch == Batch(refreshes[p].cands, refreshes[p].i)
            IN  \A details \in SettledResults(batch, HydrationKinds) :
                  HydrationSettled(p, details) =>
                    /\ error' = error
                    /\ Len(tasks') = Len(tasks)
                    /\ \A k \in 1..Len(batch), i \in 1..Len(tasks) :
                         tasks[i].task_id = batch[k] =>
                           IF details[k].status = "rejected"
                           THEN tasks'[i] = tasks[i]
                           ELSE /\ tasks'[i].config = details[k].value.config
                                /\ tasks'[i].results = details[k].value.results
                                /\ tasks'[i].started_at = details[k].value.started_at
                                /\ tasks'[i].completed_at = details[k].value.completed_at]_vars

\* The only invocation so far merged the list of four tasks and its first
\* batch settled with the request of t2 rejected and those of t1 and t3
\* fulfilled: t1 and t3 are patched, t2 is as the list left it, no error.
C10_Witness ==
    /\ calls = 1
    /\ Len(refreshes) = 1
    /\ refreshes[1].pc = "hydrating" /\ refreshes[1].i = CONCURRENCY
    /\ Len(tasks) = 4
    /\ tasks[1].results = ResultsOk /\ tasks[1].config = ConfigFull
    /\ tasks[2] = ListEntry("t2", "summary_completed")
    /\ tasks[3].results = ResultsOk /\ tasks[3].config = ConfigFull
    /\ error = NoError

\* The places in the Store of the tasks whose status is running.
RunningPlaces(ts) == { i \in 1..Len(ts) : ts[i].status = Str("running") }

\* C11: a progress tick issues, together, one detail request for each task
\* of the Store whose status is running at that moment and for no other
\* task, and issues no request at all when no task is running.
C11_ProgressDispatch ==
    [][RefreshProgress =>
          LET running == RunningPlaces(tasks)
          IN  IF running = {}
              THEN progresses' = progresses
              ELSE /\ Len(progresses') = Len(progresses) + 1
                   /\ SubSeq(progresses', 1, Len(progresses)) = progresses
                   /\ LET ids == progresses'[Len(progresses')].ids
                      IN  /\ Len(ids) = Cardinality(running)
                          /\ \A i \in running :
                                Cardinality({k \in 1..Len(ids) : ids[k] = tasks[i].task_id}) = 1
                          /\ \A k \in 1..Len(ids) :
                                \E i \in running : tasks[i].task_id = ids[k]]_vars

\* A tick over a Store that holds the completed t2 and the running t1
\* issued one request, for t1; an earlier tick over the empty Store issued
\* none.
C11_Witness ==
    /\ calls = 3
    /\ refreshes = <<>>
    /\ Ids(tasks) = <<Str("t2"), Str("t1")>>
    /\ tasks[1].status = Str("completed")
    /\ tasks[2].status = Str("running")
    /\ progresses = <<[ids |-> <<Str("t1")>>]>>

Handlers == {"refreshHealth", "refreshTasks", "refreshProgress"}

\* The setting of cfg that belongs to the stream of handler.
SettingOf(cfg, handler) ==
    CASE handler = "refreshHealth" -> cfg.healthIntervalMs
      [] handler = "refreshTasks" -> cfg.tasksIntervalMs
      [] handler = "refreshProgress" -> cfg.progressIntervalMs

\* The armed timers of ivs that call handler.
TimersOf(ivs, handler) == { t \in ivs : t.handler = handler }

\* A step that runs startPolling: a call of it or of setConfig.
StartStep == StartPolling \/ \E next \in PartialConfigs : SetConfig(next)

\* C12: a run of startPolling leaves none of the timers that were armed,
\* has called each of the three handlers once (one more health fetch and
\* one more list fetch awaited; one more progress call awaited when a task
\* is running), and leaves armed one timer per handler, each with the
\* interval the configuration then holds for its stream.
C12_Start ==
    [][StartStep =>
          /\ intervals \cap intervals' = {}
          /\ healthReqs' = healthReqs + 1
          /\ refreshes' = Append(refreshes, Fetching)
          /\ progresses' =
                IF RunningPlaces(tasks) = {} THEN progresses
                ELSE Append(progresses, [ids |-> RunningIds(tasks)])
          /\ \A h \in Handlers :
                /\ Cardinality(TimersOf(intervals', h)) = 1
                /\ \A t \in TimersOf(intervals', h) : t.ms = SettingOf(config', h)
          /\ Cardinality(intervals') = 3]_vars

\* startPolling ran over timers armed under the settings setConfig had
\* left: the three timers of that run are gone and the three armed ones
\* carry the settings, the changed progress interval among them.
C12_Witness ==
    /\ lastId = 6
    /\ config = [DefaultConfig EXCEPT !.progressIntervalMs = 500]
    /\ intervals = { Interval(4, "refreshHealth", 30000),
                     Interval(5, "refreshTasks", 15000),
                     Interval(6, "refreshProgress", 500) }
    /\ healthReqs = 2
    /\ Len(refreshes) = 2

\* No timer is armed and the three handles are null.
Stopped ==
    /\ intervals = {}
    /\ healthTimer = Null
    /\ tasksTimer = Null
    /\ progressTimer = Null

\* C13: in every state at most one timer per handler is armed; stopPolling
\* leaves no timer armed and the three handles null; and stopPolling called
\* in such a state changes nothing.
C13_NoDoubleArming ==
    /\ [](\A h \in Handlers : Cardinality(TimersOf(intervals, h)) <= 1)
    /\ [][StopPolling => Stopped']_vars
    /\ [][(Stopped /\ StopPolling) => UNCHANGED vars]_vars

\* Polling was started twice and then stopped while requests of both runs
\* were still awaited.
C13_Witness ==
    /\ Stopped
    /\ lastId = 6
    /\ healthReqs = 2
    /\ Len(refreshes) = 2

\* The handles window.setInterval gave out that are not armed.
Cancelled(ivs, last) == { id \in 1..last : \A t \in ivs : t.id # id }

\* C14: setConfig leaves the configuration with the supplied keys replaced
\* and the other keys as they were, leaves armed none of the timers that
\* were armed and arms the three timers with the intervals of the new
\* configuration; and a timer that is cancelled is never armed again, so
\* it never fires.
C14_SetConfig ==
    /\ [][\A next \in PartialConfigs :
            SetConfig(next) =>
              /\ \A k \in ConfigKeys :
                    config'[k] = IF k \in DOMAIN next THEN next[k] ELSE config[k]
              /\ intervals \cap intervals' = {}
              /\ \A t \in intervals : t.id \in Cancelled(intervals', lastId')
              /\ \A h \in Handlers :
                    \E t \in intervals' : t.handler = h /\ t.ms = SettingOf(config', h)]_vars
    /\ [][Cancelled(intervals, lastId) \subseteq Cancelled(intervals', lastId')]_vars

\* setConfig changed the progress interval, and a second setConfig changed
\* the other two: the progress interval is still the changed one, the
\* timers of the first call are cancelled and the armed ones carry the
\* three merged intervals.
C14_Witness ==
    /\ config = [healthIntervalMs |-> 5000, tasksIntervalMs |-> 5000,
                 progressIntervalMs |-> 500]
    /\ Cancelled(intervals, lastId) = {1, 2, 3}
    /\ intervals = { Interval(4, "refreshHealth", 5000),
                     Interval(5, "refreshTasks", 5000),
                     Interval(6, "refreshProgress", 500) }

\* C15: no two tasks of the Store have the same task_id.
C15_UniqueKey ==
    \A i \in 1..Len(tasks), j \in 1..Len(tasks) :
        tasks[i].task_id = tasks[j].task_id => i = j

\* The Store holds two tasks after a list response, a hydration patch (t2
\* has its config) and a progress patch (t1 is at 80) were applied and
\* every call has returned.
C15_Witness ==
    /\ calls = MaxCalls
    /\ refreshes = <<>>
    /\ progresses = <<>>
    /\ Ids(tasks) = <<Str("t2"), Str("t1")>>
    /\ tasks[1].config = ConfigFull
    /\ tasks[2].progress = ProgressAt(80)

\* The fulfilled results of out that name task id.
FulfilledFor(out, id) ==
    { k \in 1..Len(out) : out[k].status = "fulfilled" /\ out[k].value.task_id = id }

HydrationFields == {"config", "results", "started_at", "completed_at"}

\* C16: when a hydration batch settles, a task of the Store that a fulfilled
\* response names has the config, results, started_at and completed_at of
\* the response and its status, progress and every other field as before;
\* every other task is as before.
C16_HydrationFrame ==
    [][\A p \in 1..Len(refreshes) :
          refreshes[p].pc = "hydrating" =>
            \A details \in SettledResults(Batch(refreshes[p].cands, refreshes[p].i),
                                          HydrationKinds) :
              HydrationSettled(p, details) =>
                /\ Len(tasks') = Len(tasks)
                /\ \A i \in 1..Len(tasks) :
                      LET ks == FulfilledFor(details, tasks[i].task_id)
                      IN  IF ks = {} THEN tasks'[i] = tasks[i]
                          ELSE /\ \A k \in ks, f \in HydrationFields :
                                    tasks'[i][f] = details[k].value[f]
                               /\ \A f \in Fields \ HydrationFields :
                                    tasks'[i][f] = tasks[i][f]]_vars

\* A hydration response patched t1 after a later list response had turned
\* it to running: t1 has the config, results and completed_at of the
\* response, and still the status running and no progress.
C16_Witness ==
    /\ Ids(tasks) = <<Str("t1")>>
    /\ tasks[1].status = Str("running")
    /\ tasks[1].progress = Undefined
    /\ tasks[1].config = ConfigFull
    /\ tasks[1].results = ResultsOk
    /\ tasks[1].completed_at = Ended

ProgressFields == {"status", "progress", "results", "started_at", "completed_at"}

\* C17: when a progress tick settles, a task of the Store that a fulfilled
\* response names has the status, progress, results, started_at and
\* completed_at of the response and its config and every other field as
\* before; every other task is as before.
C17_ProgressFrame ==
    [][\A q \in 1..Len(progresses) :
          \A updates \in SettledResults(progresses[q].ids, ProgressKinds) :
            ProgressSettled(q, updates) =>
              /\ Len(tasks') = Len(tasks)
              /\ \A i \in 1..Len(tasks) :
                    LET ks == FulfilledFor(updates, tasks[i].task_id)
                    IN  IF ks = {} THEN tasks'[i] = tasks[i]
                        ELSE /\ \A k \in ks, f \in ProgressFields :
                                  tasks'[i][f] = updates[k].value[f]
                             /\ \A f \in Fields \ ProgressFields :
                                  tasks'[i][f] = tasks[i][f]]_vars

\* A progress response said t1 is completed: beside the untouched t2, t1
\* has the status, progress, results and completed_at of the response and
\* still no config.
C17_Witness ==
    /\ progresses = <<>>
    /\ Ids(tasks) = <<Str("t2"), Str("t1")>>
    /\ tasks[1].results = Undefined
    /\ tasks[2].status = Str("completed")
    /\ tasks[2].progress = ProgressAt(100)
    /\ tasks[2].results = ResultsOk
    /\ tasks[2].completed_at = Ended
    /\ tasks[2].config = Undefined

\* C18: whatever the results of a progress tick, the error stays as it is;
\* a task whose request was rejected keeps its fields and a task of the
\* Store whose request was fulfilled holds the status, progress, results,
\* started_at and completed_at of the response, whatever became of the
\* other requests of the tick.  The call of refreshProgress itself leaves
\* the error as it is too: no step of the progress stream sets it.
C18_ProgressIsolation ==
    /\ [][\A q \in 1..Len(progresses) :
            \A updates \in SettledResults(progresses[q].ids, ProgressKinds) :
              ProgressSettled(q, updates) =>
                /\ error' = error
                /\ Len(tasks') = Len(tasks)
                /\ \A k \in 1..Len(updates), i \in 1..Len(tasks) :
                      tasks[i].task_id = progresses[q].ids[k] =>
                        IF updates[k].status = "rejected"
                        THEN tasks'[i] = tasks[i]
                        ELSE \A f \in ProgressFields :
                               tasks'[i][f] = updates[k].value[f]]_vars
    /\ [][RefreshProgress => error' = error]_vars

\* One tick asked for the running t1 and t2; the request of t1 was
\* fulfilled and that of t2 rejected: t1 is at 80, t2 is as the list left
\* it, and there is no error.
C18_Witness ==
    /\ calls = 2
    /\ refreshes = <<>>
    /\ progresses = <<>>
    /\ Ids(tasks) = <<Str("t1"), Str("t2")>>
    /\ tasks[1].progress = ProgressAt(80)
    /\ tasks[2] = ListEntry("t2", "running_progress")
    /\ error = NoError

\* C19: for every prior Store and every list response, merging the response
\* into the result of merging it yields that result again.
C19_MergeIdempotent ==
    [][\A p \in 1..Len(refreshes), list \in MergeSnapshots :
          TasksOk(p, list) => Merge(tasks', list) = tasks']_vars

\* A response of two entries was merged into a Store that held t1: the
\* result is neither the response nor the prior Store (t1 keeps the prior
\* progress and takes the new status and results, t3 is new), and merging
\* the response again gives the result.
C19_Witness ==
    \E p \in 1..Len(refreshes) :
        /\ refreshes[p].pc = "hydrating"
        /\ Ids(refreshes[p].list) = <<Str("t1"), Str("t3")>>
        /\ Ids(tasks) = <<Str("t1"), Str("t3")>>
        /\ tasks # refreshes[p].list
        /\ tasks[1].status = Str("completed")
        /\ tasks[1].progress = ProgressAt(40)
        /\ tasks[1].results = ResultsFailed
        /\ Merge(tasks, refreshes[p].list) = tasks

\* The batch candidate k belongs to when the candidates are cut, in order,
\* into batches of CONCURRENCY: 0 for the first.
BatchOf(k) == (k - 1) \div CONCURRENCY

\* The candidates of run whose request has been issued.
Issued(run) == 1..(run.i + Len(Batch(run.cands, run.i)))

\* C20: in a hydration run the candidates stand in the order of their
\* selection from the Store, the requests issued so far are those of
\* whole consecutive batches of at most CONCURRENCY candidates, and when a
\* request is issued every request of every earlier batch has settled.
C20_BatchOrdering ==
    \A p \in 1..Len(refreshes) :
        refreshes[p].pc = "hydrating" =>
            LET run == refreshes[p]
                n == Len(run.cands)
            IN  /\ run.cands = SelectSeq(Ids(run.list),
                        LAMBDA id : \E k \in 1..n : run.cands[k] = id)
                /\ \A k \in Issued(run), m \in 1..n :
                      BatchOf(m) = BatchOf(k) => m \in Issued(run)
                /\ \A k \in Issued(run), m \in 1..n :
                      BatchOf(m) < BatchOf(k) => run.out[m] # "pending"
                /\ Cardinality({ k \in Issued(run) : run.out[k] = "pending" })
                        <= CONCURRENCY

\* A run over seven candidates awaits its second batch: the three requests
\* of the first batch settled, one of them rejected, the request of the
\* fourth candidate settled too, those of the fifth and sixth are
\* outstanding and that of the seventh is not issued.
C20_Witness ==
    /\ Len(refreshes) = 1
    /\ refreshes[1].pc = "hydrating"
    /\ Len(refreshes[1].cands) = 7
    /\ refreshes[1].i = CONCURRENCY
    /\ refreshes[1].out =
            <<"completed", "rejected", "completed", "completed",
              "pending", "pending", "pending">>
    /\ tasks[1].results = ResultsOk
    /\ tasks[2].results = Undefined

\* C21: stopPolling leaves every call that awaits a response as it is, and
\* the Store too; and in a state where polling is stopped, the response to
\* a health fetch still sets the health record or the error, the response
\* to a list fetch still installs the merge or sets the error, and the
\* results of a hydration batch and of a progress tick are still applied
\* to the tasks.
C21_PostStopWrite ==
    /\ [][StopPolling =>
            /\ healthReqs' = healthReqs
            /\ refreshes' = refreshes
            /\ progresses' = progresses
            /\ <<health, tasks, error>>' = <<health, tasks, error>>]_vars
    /\ [](Stopped =>
            /\ healthReqs > 0 =>
                  /\ \A h \in HealthRecords : ENABLED (HealthOk(h) /\ health' = h)
                  /\ ENABLED (HealthFail([message |-> MsgHealthCheckFailed])
                                /\ health' = Null /\ error' = MsgHealthCheckFailed)
            /\ \A p \in 1..Len(refreshes) :
                  IF refreshes[p].pc = "fetching"
                  THEN /\ \A list \in PollingLists :
                            ENABLED (TasksOk(p, list) /\ tasks' = Merge(tasks, list))
                       /\ ENABLED (TasksFail(p, [message |-> MsgTaskListUnavailable])
                                     /\ error' = MsgTaskListUnavailable)
                  ELSE \A details \in SettledResults(
                              Batch(refreshes[p].cands, refreshes[p].i), HydrationKinds) :
                            ENABLED (HydrationSettled(p, details)
                                        /\ tasks' = ApplyHydration(tasks, details, 1))
            /\ \A q \in 1..Len(progresses) :
                  \A updates \in SettledResults(progresses[q].ids, ProgressKinds) :
                    ENABLED (ProgressSettled(q, updates)
                                /\ tasks' = ApplyProgress(tasks, updates, 1)))

\* Polling is stopped while a health fetch, a list fetch, a hydration batch
\* and a progress tick are all awaiting their responses.
C21_Witness ==
    /\ Stopped
    /\ healthReqs > 0
    /\ \E p \in 1..Len(refreshes) : refreshes[p].pc = "fetching"
    /\ \E p \in 1..Len(refreshes) : refreshes[p].pc = "hydrating"
    /\ progresses # <<>>

\* C22: whatever happened before, a list response that is merged is
\* followed by a hydration run that selects every task of the Store that
\* is not running and lacks config.num_classes or results (one left so by
\* a failed detail request included) and has the requests of its first
\* batch issued at once; a run that awaits always has requests out.
C22_Reattempt ==
    /\ [][\A p \in 1..Len(refreshes), list \in ListResponses :
            TasksOk(p, list) =>
              LET need == ExpectedCandidates(tasks')
              IN  need # {} =>
                    /\ Len(refreshes') = Len(refreshes)
                    /\ refreshes'[p].pc = "hydrating"
                    /\ refreshes'[p].i = 0
                    /\ \A i \in need :
                          \E k \in 1..Len(refreshes'[p].cands) :
                            /\ refreshes'[p].cands[k] = tasks'[i].task_id
                            /\ Cardinality(need) <= CONCURRENCY
                                  => k <= Len(Batch(refreshes'[p].cands, 0))]_vars
    /\ [](\A p \in 1..Len(refreshes) :
            refreshes[p].pc = "hydrating" =>
                Len(Batch(refreshes[p].cands, refreshes[p].i)) > 0)

\* The first batch of a run over t1..t4 settled with the request of t2
\* rejected (t1 and t3 have their details, t2 has not), and the next list
\* response selected t2 again, with t4, and their requests are out.
C22_Witness ==
    \E p \in 1..Len(refreshes) :
        /\ refreshes[p].pc = "hydrating" /\ refreshes[p].i = 0
        /\ refreshes[p].cands = <<Str("t2"), Str("t4")>>
        /\ Len(tasks) = 4
        /\ tasks[1].config = ConfigFull /\ tasks[1].results = ResultsOk
        /\ tasks[2].config = Undefined /\ tasks[2].results = Undefined
        /\ tasks[3].config = ConfigFull /\ tasks[3].results = ResultsOk

\* A list entry writes field f when it carries it; it writes progress when
\* it carries a progress object.
Writes(nt, f) == IF f = "progress" THEN Populated(nt.progress) ELSE Carries(nt, f)

\* The results of progress tick ids when every request is fulfilled with a
\* record of the kind.
AllFulfilled(ids, kind) == [k \in 1..Len(ids) |-> SettledResult(ids[k], kind)]

\* C23: in a state where a list fetch and a progress tick for a task are
\* both awaited, whichever response completes last decides: when the
\* progress results are applied after the merge, the task's status,
\* progress, results, started_at and completed_at are those of the
\* progress response; when the merge is installed after the progress
\* results, each of these fields the list entry writes is the list
\* entry's.
C23_LastWriteWins ==
    \A p \in 1..Len(refreshes), q \in 1..Len(progresses) :
        refreshes[p].pc = "fetching" =>
          \A list \in ListResponses, kind \in ProgressKinds :
            LET ids == progresses[q].ids
                updates == AllFulfilled(ids, kind)
                listThenProgress == ApplyProgress(Merge(tasks, list), updates, 1)
                progressThenList == Merge(ApplyProgress(tasks, updates, 1), list)
            IN  \A k \in 1..Len(ids) :
                  HasEntry(list, ids[k]) =>
                    /\ \A f \in ProgressFields :
                          EntryOf(listThenProgress, ids[k])[f] = updates[k].value[f]
                    /\ \A f \in ProgressFields :
                          Writes(EntryOf(list, ids[k]), f) =>
                            EntryOf(progressThenList, ids[k])[f] = EntryOf(list, ids[k])[f]

\* A progress tick for the running t1 was awaited when a list response
\* that shows t1 completed was merged (the run it started selected t1);
\* the progress response came last and t1 is running at 80 again.
C23_Witness ==
    /\ progresses = <<>>
    /\ Len(refreshes) = 1
    /\ refreshes[1].pc = "hydrating" /\ refreshes[1].i = 0
    /\ refreshes[1].cands = <<Str("t1")>>
    /\ Ids(tasks) = <<Str("t1")>>
    /\ tasks[1].status = Str("running")
    /\ tasks[1].progress = ProgressAt(80)
    /\ tasks[1].completed_at = Null

\* The tasks named by ids that the Store ts shows as running.
RunningAmong(ts, ids) ==
    { k \in 1..Len(ids) :
        HasEntry(ts, ids[k]) /\ EntryOf(ts, ids[k]).status = Str("running") }

\* C24: no task is running in the Store when a hydration request for it is
\* issued (the first batch when the run starts, each later batch when the
\* one before it has settled), and none when a hydration patch is applied
\* to it.
C24_NeverTouchesRunning ==
    /\ [][\A p \in 1..Len(refreshes), list \in ListResponses :
            TasksOk(p, list) =>
              (Len(refreshes') = Len(refreshes) =>
                 RunningAmong(tasks', Batch(refreshes'[p].cands, 0)) = {})]_vars
    /\ [][\A p \in 1..Len(refreshes) :
            refreshes[p].pc = "hydrating" =>
              LET batch == Batch(refreshes[p].cands, refreshes[p].i)
              IN  \A details \in SettledResults(batch, HydrationKinds) :
                    HydrationSettled(p, details) =>
                      /\ \A k \in RunningAmong(tasks, batch) :
                            details[k].status # "fulfilled"
                      /\ Len(refreshes') = Len(refreshes) =>
                            RunningAmong(tasks',
                                Batch(refreshes'[p].cands, refreshes'[p].i)) = {}]_vars

\* Polling is started: each handler has its timer armed, with the interval
\* the configuration holds for its stream.
PollingStarted ==
    \A h \in Handlers :
        \E t \in intervals : t.handler = h /\ t.ms = SettingOf(config, h)

\* Some request of the results out was rejected.
SomeRejected(out) == \E k \in 1..Len(out) : out[k].status = "rejected"

\* C25: a failed health fetch, a failed list fetch, a hydration batch and
\* a progress tick with rejected requests leave the configuration, the
\* handles and the armed timers as they are; and while polling is started
\* (and the model's budget of calls is not used up) each of the three
\* timers can fire, whatever the error and the health record show.
C25_NoBackoff ==
    /\ [][HealthFail([message |-> MsgHealthCheckFailed]) => polling' = polling]_vars
    /\ [][\A p \in 1..Len(refreshes) :
            TasksFail(p, [message |-> MsgTaskListUnavailable]) => polling' = polling]_vars
    /\ [][\A p \in 1..Len(refreshes) :
            refreshes[p].pc = "hydrating" =>
              \A details \in SettledResults(Batch(refreshes[p].cands, refreshes[p].i),
                                            HydrationKinds) :
                (SomeRejected(details) /\ HydrationSettled(p, details))
                    => polling' = polling]_vars
    /\ [][\A q \in 1..Len(progresses) :
            \A updates \in SettledResults(progresses[q].ids, ProgressKinds) :
              (SomeRejected(updates) /\ ProgressSettled(q, updates))
                  => polling' = polling]_vars
    /\ []((PollingStarted /\ calls < MaxCalls) =>
            /\ ENABLED TickHealth
            /\ ENABLED TickTasks
            /\ ENABLED TickProgress)

\* Polling was started once and never stopped; the health fetch and the
\* list fetch of the start failed, two ticks fired and their calls have
\* ended too, the list fetch failing last: the three timers are armed
\* with the configured intervals.
C25_Witness ==
    /\ lastId = 3
    /\ calls = 3
    /\ PollingStarted
    /\ intervals = Armed(DefaultConfig, 0)
    /\ health = Null
    /\ error = MsgTaskListUnavailable
    /\ tasks = <<>>
    /\ healthReqs = 0
    /\ refreshes = <<>>

\* ceil(n / CONCURRENCY)
BatchesFor(n) == (n + CONCURRENCY - 1) \div CONCURRENCY

\* C26: a refreshTasks invocation whose merge leaves no candidate returns
\* without a request; a hydration run returns from the await of the batch
\* that takes it to the end of its N candidates, having made N
\* getTaskProgress calls in ceil(N / CONCURRENCY) batches; and when every
\* response arrives the invocation returns in the end.
C26_RunTerminates ==
    /\ [][\A p \in 1..Len(refreshes), list \in HydrationLists :
            TasksOk(p, list) =>
              IF ExpectedCandidates(tasks') = {}
              THEN refreshes' = RemoveAt(refreshes, p)
              ELSE /\ Len(refreshes') = Len(refreshes)
                   /\ Len(refreshes'[p].cands) = Cardinality(ExpectedCandidates(tasks'))]_vars
    /\ [][\A p \in 1..Len(refreshes) :
            HydrationResolves(p) =>
              LET run == refreshes[p]
                  n == Len(run.cands)
              IN  IF run.sent < n
                  THEN Len(refreshes') = Len(refreshes)
                  ELSE /\ refreshes' = RemoveAt(refreshes, p)
                       /\ run.sent = n
                       /\ run.batches = BatchesFor(n)
                       /\ \A k \in 1..n : run.out[k] # "pending"]_vars
    /\ <>(refreshes = <<>>)

\* A run over seven candidates has returned, and refreshTasks with it: the
\* request of t4 was rejected, t7 of the third batch has its details.
C26_Witness ==
    /\ refreshes = <<>>
    /\ Len(tasks) = 7
    /\ tasks[4].results = Undefined
    /\ tasks[7].results = ResultsOk
    /\ \A i \in 1..7 : tasks[i].status = Str("completed")

\* Every fulfilled result of out names a task the Store ts does not hold.
OnlyAbsent(ts, out) ==
    \A k \in 1..Len(out) :
        out[k].status = "fulfilled" => ~HasEntry(ts, out[k].value.task_id)

\* C27: the task_ids of the Store change only in the step that installs a
\* merged list response; and when the results of a hydration batch or of a
\* progress tick name tasks the Store no longer holds, those results add
\* no task, and the Store is left as it is when no other result is
\* fulfilled.
C27_PatchesKeepMembership ==
    /\ [][Ids(tasks') # Ids(tasks) =>
            \E p \in 1..Len(refreshes), list \in ListResponses : TasksOk(p, list)]_vars
    /\ [][\A p \in 1..Len(refreshes) :
            (/\ refreshes[p].pc = "hydrating"
             /\ \E k \in Awaited(refreshes[p]) :
                    ~HasEntry(tasks, refreshes[p].cands[k])) =>
              \A details \in SettledResults(Batch(refreshes[p].cands, refreshes[p].i),
                                            HydrationKinds) :
                HydrationSettled(p, details) =>
                  /\ Ids(tasks') = Ids(tasks)
                  /\ OnlyAbsent(tasks, details) => tasks' = tasks]_vars
    /\ [][\A q \in 1..Len(progresses) :
            (\E k \in 1..Len(progresses[q].ids) :
                ~HasEntry(tasks, progresses[q].ids[k])) =>
              \A updates \in SettledResults(progresses[q].ids, ProgressKinds) :
                ProgressSettled(q, updates) =>
                  /\ Ids(tasks') = Ids(tasks)
                  /\ OnlyAbsent(tasks, updates) => tasks' = tasks]_vars

\* A run over t1..t4 awaited its first batch when a list response with t1
\* alone was merged; the batch then settled with its three requests
\* fulfilled: t1 is patched, the responses for t2 and t3 are gone without
\* a trace, and the run goes on to the request of t4.
C27_Witness ==
    /\ Ids(tasks) = <<Str("t1")>>
    /\ tasks[1].config = ConfigFull
    /\ tasks[1].results = ResultsOk
    /\ \E p \in 1..Len(refreshes) :
          /\ refreshes[p].pc = "hydrating"
          /\ refreshes[p].cands = <<Str("t1"), Str("t2"), Str("t3"), Str("t4")>>
          /\ refreshes[p].i = CONCURRENCY

\* C28: the error goes from a text to the empty text only in a health
\* fetch that succeeds; a list response that is merged, a hydration batch
\* and a progress tick that settle, and the calls of the handlers leave
\* the error as it is, so 'task list unavailable' stays through list
\* responses that are merged after it.
C28_OnlyHealthClears ==
    /\ [][(error # NoError /\ error' = NoError) =>
            \E h \in HealthRecords : HealthOk(h)]_vars
    /\ [][error' # error =>
            \/ \E h \in HealthRecords : HealthOk(h)
            \/ \E e \in HealthFailures : HealthFail(e)
            \/ \E p \in 1..Len(refreshes), e \in ListFailures : TasksFail(p, e)]_vars
    /\ [][\A p \in 1..Len(refreshes), list \in ListResponses :
            (error = MsgTaskListUnavailable /\ TasksOk(p, list))
                => error' = MsgTaskListUnavailable]_vars

\* A list fetch failed and the list response of another was merged, whose
\* hydration run has returned after two batches: the Store is filled and
\* the error shows the failure.
C28_Witness ==
    /\ calls = 3
    /\ healthReqs = 0
    /\ health = Null
    /\ refreshes = <<>>
    /\ progresses = <<>>
    /\ error = MsgTaskListUnavailable
    /\ Len(tasks) = 4
    /\ \A i \in 1..4 : tasks[i].config = ConfigFull

=============================================================================
